---- MODULE Spec2Model ----
(***************************************************************************)
(* Model of the squirrel debugger protocol of sq-common/src/dbg.rs:        *)
(* SqDebugger (the controller-side facade) and the debug hook closure that *)
(* SqDebugger::attach installs into the VM.  Two threads take part: the    *)
(* controller thread, which calls the facade, and the VM thread, which     *)
(* runs the hook at every debug event.  They share the atomic exec_state,  *)
(* the unbounded command channel (tx/rx) and the zero-capacity response    *)
(* channel (resp_tx/resp_rx).                                              *)
(***************************************************************************)
EXTENDS Integers, Sequences, FiniteSets, TLC

(* Bounds of the model. *)
MaxInv == 3
MaxCalls == 4
MaxQueue == 2
MaxCounter == 2
MaxWatchers == 2
MaxBps == 2

VARIABLES
    exec_state,   \* Arc<Atomic<ExecState>>                     (dbg.rs:62,79)
    cmdq,         \* mpsc::channel of DebugMsg, controller->hook (dbg.rs:75)
    resp,         \* sync_channel(0): the response a blocked send offers (dbg.rs:76)
    hook_pc,      \* where the VM thread is
    hook_inv,     \* number of hook invocations begun so far
    stack,        \* the VM call stack seen by this invocation: locals per level
    observed,     \* the value the hook's latest exec_state.load returned
    released,     \* the hook consumed a Step or read Running since it last read Halted
    ctl_pc,       \* where the controller thread is
    call,         \* the facade call in progress, or the latest one
    ret,          \* what the latest completed facade call returned
    ncalls,       \* number of facade calls made so far
    nfail,        \* number of facade calls that returned Err so far (capped at 2)
    buffers,      \* DebuggerFrontend::buffers: ScriptBuffers      (util.rs:223)
    during_eval,  \* DebuggerFrontend::during_eval                 (util.rs:224)
    fe_pc,        \* where the frontend is within do_actions
    fe_cmd,       \* the evaluation eval_script has prepared
    watchers,     \* threads waiting for a deferred evaluation     (util.rs:505)
    saved,        \* the state file written by Save               (util.rs:544-548)
    bps,          \* the records given to dbg.breakpoints().add   (util.rs:418)
    maxid,        \* the largest number ScriptBuffers::add has returned so far
    out           \* what the latest frontend command did

vars == <<exec_state, cmdq, resp, hook_pc, hook_inv, stack, observed, released,
          ctl_pc, call, ret, ncalls, nfail,
          buffers, during_eval, fe_pc, fe_cmd, watchers, saved, bps, maxid, out>>

dbgVars == <<exec_state, cmdq, resp, hook_pc, hook_inv, stack, observed, released,
             ctl_pc, call, ret, ncalls, nfail>>
feVars == <<buffers, during_eval, fe_pc, fe_cmd, watchers, saved, bps, maxid, out>>

hookVars == <<hook_pc, hook_inv, stack, observed, released>>
ctlVars == <<ctl_pc, call, ret, ncalls, nfail>>

(* enum ExecState *)
ExecState == {"Running", "Halted"}

(* Option<SqUnsignedInteger> of DebugMsg::Locals: 0 stands for None;       *)
(* level 0 is never a level of the stack.                                  *)
NoLevel == 0
Levels == {NoLevel, 1, 2}

(* The call stacks the VM may be in at a debug event: stack[l] is the      *)
(* number of local slots of level l (1 = current function).                *)
Stacks == {<<1>>, <<0, 1>>, <<2, 1>>}

(* enum DebugMsg; call is the facade call that posted the message. *)
DebugMsg(t, lvl, id) == [t |-> t, lvl |-> lvl, call |-> id]

(* enum DebugResp.  inv: the hook invocation that produced it; call: the   *)
(* facade call whose command it answers (0 for an Event).                  *)
RespEvent(inv) ==
    [k |-> "Event", inv |-> inv, call |-> 0, some |-> TRUE, body |-> <<>>]
RespBacktrace(inv, id, bt) ==
    [k |-> "Backtrace", inv |-> inv, call |-> id, some |-> TRUE, body |-> bt]
(* Mutant of RespLocals: the empty list is sent as Some(v) too. *)
RespLocalsAlwaysSome(inv, id, v) ==
    [k |-> "Locals", inv |-> inv, call |-> id, some |-> TRUE, body |-> v]

(* dbg.rs:137: Locals(if v.is_empty() { None } else { Some(v) }) *)
RespLocals(inv, id, v) ==
    [k |-> "Locals", inv |-> inv, call |-> id, some |-> v # <<>>, body |-> v]

NoResp == [k |-> "None", inv |-> 0, call |-> 0, some |-> FALSE, body |-> <<>>]

(* vm.get_stack_info(lvl) is Ok *)
GetStackInfoOk(s, lvl) == lvl >= 1 /\ lvl <= Len(s)

(* vm.get_local(lvl, idx) is Ok *)
GetLocalOk(s, lvl, idx) == lvl >= 1 /\ lvl <= Len(s) /\ idx < s[lvl]

(* Mutant of WalkBacktrace: the walk stops after the first frame. *)
WalkBacktraceOneFrame(s, lvl) ==
    IF GetStackInfoOk(s, lvl) THEN <<lvl>> ELSE <<>>

(* The Backtrace handler: levels 1, 2, ... until get_stack_info fails. *)
RECURSIVE WalkBacktrace(_, _)
WalkBacktrace(s, lvl) ==
    IF GetStackInfoOk(s, lvl) THEN <<lvl>> \o WalkBacktrace(s, lvl + 1) ELSE <<>>

(* The inner loop of the Locals handler: slots idx, idx+1, ... of lvl. *)
RECURSIVE WalkSlots(_, _, _)
WalkSlots(s, lvl, idx) ==
    IF GetLocalOk(s, lvl, idx)
    THEN <<[lvl |-> lvl, idx |-> idx]>> \o WalkSlots(s, lvl, idx + 1)
    ELSE <<>>

(* The outer loop of the Locals handler, entered with lvl. *)
RECURSIVE WalkLocals(_, _, _)
WalkLocals(s, lvl_opt, lvl) ==
    IF GetLocalOk(s, lvl, 0)
    THEN <<[lvl |-> lvl, idx |-> 0]>> \o WalkSlots(s, lvl, 1)
         \o (IF lvl_opt # NoLevel THEN <<>> ELSE WalkLocals(s, lvl_opt, lvl + 1))
    ELSE <<>>

CollectLocals(s, lvl_opt) ==
    WalkLocals(s, lvl_opt, IF lvl_opt # NoLevel THEN lvl_opt ELSE 1)

NoCall == [op |-> "none", lvl |-> NoLevel, no_recv |-> FALSE, id |-> 0,
           inv |-> 0, pc |-> "vm", clean |-> FALSE, fails |-> 0,
           held |-> FALSE]
NoRet == [op |-> "none", res |-> "none", val |-> NoResp]

(***************************************************************************)
(* The state of the command-line frontend, d3d9/src/util.rs.               *)
(***************************************************************************)

(* Option<T>: None, Some(v). *)
None == <<>>
Some(v) == <<v>>

(* ScriptBuffers::new (util.rs:654-656) *)
ScriptBuffersNew == [store |-> <<>>, counter |-> 1]

NoEval == [debug |-> FALSE, script |-> <<>>, capture |-> <<>>]
NoOut == [cmd |-> "none", res |-> "none", arg |-> 0, val |-> 0]

(* DebuggerFrontend::new (util.rs:560-566), no state file written yet and  *)
(* no breakpoint in the store.                                             *)
FrontendNew ==
    /\ buffers = ScriptBuffersNew
    /\ during_eval = FALSE
    /\ fe_pc = "idle"
    /\ fe_cmd = NoEval
    /\ watchers = 0
    /\ saved = None
    /\ bps = <<>>
    /\ maxid = 0
    /\ out = NoOut


Init ==
    /\ exec_state = "Halted"
    /\ cmdq = <<>>
    /\ resp = <<>>
    /\ hook_pc = "vm"
    /\ hook_inv = 0
    /\ stack = <<1>>
    /\ observed = "Unread"
    /\ released = FALSE
    /\ ctl_pc = "idle"
    /\ call = NoCall
    /\ ret = NoRet
    /\ ncalls = 0
    /\ nfail = 0
    /\ FrontendNew


(***************************************************************************)
(* The VM thread: the debug hook closure (dbg.rs:88-146).                  *)
(***************************************************************************)

SendStates == {"send_event", "send_bt", "send_loc"}
LoopStates == {"poll", "check", "sleep"}

(* resp_tx.send(r) on the zero-capacity channel: the message is offered    *)
(* and the sender stays in send until a receiver has taken it.             *)
Offer(r) == resp' = Append(resp, r)

(* Mutant of SendReturns: a buffered channel, whose send returns at once. *)
SendReturnsBuffered == TRUE

(* The blocked send returns: the offered message has been taken. *)
SendReturns == resp = <<>>

(* The VM raises a debug event and calls the hook (dbg.rs:88). *)
HookEnter ==
    /\ hook_pc = "vm"
    /\ hook_inv < MaxInv
    /\ hook_inv' = hook_inv + 1
    /\ \E s \in Stacks : stack' = s
    /\ hook_pc' = "entry"
    /\ UNCHANGED <<exec_state, cmdq, resp, observed, released>>
    /\ UNCHANGED ctlVars
    /\ UNCHANGED feVars

(* Mutant of SendsEventOnEntry: every invocation sends an Event. *)
SendsEventAlways(st) == TRUE

(* The hook sends an Event on entry when the state it loads is this. *)
SendsEventOnEntry(st) == st = "Halted"

(* dbg.rs:93-98: load exec_state; if Halted, send the Event. *)
HookLoadEntry ==
    /\ hook_pc = "entry"
    /\ observed' = exec_state
    /\ released' = (exec_state = "Running")
    /\ IF SendsEventOnEntry(exec_state)
       THEN Offer(RespEvent(hook_inv)) /\ hook_pc' = "send_event"
       ELSE hook_pc' = "poll" /\ UNCHANGED resp
    /\ UNCHANGED <<exec_state, cmdq, hook_inv, stack>>
    /\ UNCHANGED ctlVars
    /\ UNCHANGED feVars

(* A send of the hook returns (dbg.rs:94-97, 112, 137): after the Event    *)
(* the loop starts, after a Backtrace or Locals the handler falls through  *)
(* to the check of line 141.                                               *)
HookSendDone ==
    /\ hook_pc \in SendStates
    /\ SendReturns
    /\ hook_pc' = IF hook_pc = "send_event" THEN "poll" ELSE "check"
    /\ UNCHANGED <<exec_state, cmdq, resp, hook_inv, stack, observed, released>>
    /\ UNCHANGED ctlVars
    /\ UNCHANGED feVars

(* Mutant of BreaksOnMsg: the break sits in the wrong arm of the match. *)
BreaksOnBacktrace(msg) == msg.t = "Backtrace"

(* The hook leaves its loop right after taking this message (dbg.rs:104). *)
BreaksOnMsg(msg) == msg.t = "Step"

(* dbg.rs:101-139: rx.try_recv() and the handler of the message. *)
HookTryRecv ==
    /\ hook_pc = "poll"
    /\ IF cmdq = <<>>
       THEN /\ hook_pc' = "check"
            /\ UNCHANGED <<cmdq, resp, released>>
       ELSE LET msg == Head(cmdq) IN
            /\ cmdq' = Tail(cmdq)
            /\ IF BreaksOnMsg(msg)
               THEN /\ hook_pc' = "vm"
                    /\ released' = TRUE
                    /\ UNCHANGED resp
               ELSE IF msg.t = "Backtrace"
               THEN /\ Offer(RespBacktrace(hook_inv, msg.call,
                                           WalkBacktrace(stack, 1)))
                    /\ hook_pc' = "send_bt"
                    /\ UNCHANGED released
               ELSE /\ Offer(RespLocals(hook_inv, msg.call,
                                        CollectLocals(stack, msg.lvl)))
                    /\ hook_pc' = "send_loc"
                    /\ UNCHANGED released
    /\ UNCHANGED <<exec_state, hook_inv, stack, observed>>
    /\ UNCHANGED ctlVars
    /\ UNCHANGED feVars

(* Mutant of BreaksOnState: the hook leaves its loop on Halted. *)
BreaksOnStateHalted(st) == st = "Halted"

(* The hook leaves its loop when the state it loads at line 141 is this. *)
BreaksOnState(st) == st = "Running"

(* dbg.rs:141-143: load exec_state; break if Running. *)
HookCheck ==
    /\ hook_pc = "check"
    /\ observed' = exec_state
    /\ released' = (exec_state = "Running")
    /\ hook_pc' = IF BreaksOnState(exec_state) THEN "vm" ELSE "sleep"
    /\ UNCHANGED <<exec_state, cmdq, resp, hook_inv, stack>>
    /\ UNCHANGED ctlVars
    /\ UNCHANGED feVars

(* dbg.rs:144: the sleep ends and the loop starts over. *)
HookSleep ==
    /\ hook_pc = "sleep"
    /\ hook_pc' = "poll"
    /\ UNCHANGED <<exec_state, cmdq, resp, hook_inv, stack, observed, released>>
    /\ UNCHANGED ctlVars
    /\ UNCHANGED feVars

HookStep ==
    \/ HookEnter
    \/ HookLoadEntry
    \/ HookSendDone
    \/ HookTryRecv
    \/ HookCheck
    \/ HookSleep


(***************************************************************************)
(* The controller thread: the facade SqDebugger (dbg.rs:151-227).          *)
(***************************************************************************)

WaitStates == {"halt_recv", "step_recv", "locals_recv", "bt_recv"}

(* The hook is held in its polling loop with nothing queued or offered. *)
CleanHalted ==
    /\ hook_pc \in LoopStates
    /\ exec_state = "Halted"
    /\ cmdq = <<>>
    /\ resp = <<>>

(* The call before this one timed out, and the hook invocation it found   *)
(* in progress is still in progress: the VM thread was inside the hook    *)
(* during the whole wait.                                                 *)
TimedOutHeld ==
    /\ ret.res = "timeout"
    /\ call.pc # "vm"
    /\ call.inv = hook_inv
    /\ hook_pc # "vm"

(* A facade call begins: its arguments, its number, and what it finds     *)
(* (the hook's invocation and position, the failures so far).             *)
BeginCall(op, lvl, no_recv) ==
    /\ ctl_pc = "idle"
    /\ ncalls < MaxCalls
    /\ ncalls' = ncalls + 1
    /\ call' = [op |-> op, lvl |-> lvl, no_recv |-> no_recv, id |-> ncalls + 1,
                inv |-> hook_inv, pc |-> hook_pc, clean |-> CleanHalted,
                fails |-> nfail,
                held |-> op = "resume" /\ TimedOutHeld]

Returns(op, res, val) == ret' = [op |-> op, res |-> res, val |-> val]

IsErr(res) == res \in {"timeout", "mismatch", "nolocals"}

CountFail(res) == nfail' = IF IsErr(res) /\ nfail < 2 THEN nfail + 1 ELSE nfail

(* dbg.rs:152-154: resume() stores Running. *)
Resume ==
    /\ BeginCall("resume", NoLevel, FALSE)
    /\ exec_state' = "Running"
    /\ Returns("resume", "ok", NoResp)
    /\ UNCHANGED <<cmdq, resp, ctl_pc, nfail>>
    /\ UNCHANGED hookVars
    /\ UNCHANGED feVars

(* Mutant of HaltWaits: no_recv is ignored. *)
HaltWaitsIgnoringNoRecv(prev, no_recv) == prev = "Running"

(* dbg.rs:169: halt waits for an Event in this case only. *)
HaltWaits(prev, no_recv) == prev = "Running" /\ ~no_recv

(* dbg.rs:166-176: halt(no_recv) swaps Halted in, then waits or returns    *)
(* Ok(None).                                                               *)
Halt(no_recv) ==
    /\ BeginCall("halt", NoLevel, no_recv)
    /\ exec_state' = "Halted"
    /\ IF HaltWaits(exec_state, no_recv)
       THEN ctl_pc' = "halt_recv" /\ ret' = NoRet
       ELSE ctl_pc' = "idle" /\ Returns("halt", "none", NoResp)
    /\ UNCHANGED <<cmdq, resp, nfail>>
    /\ UNCHANGED hookVars
    /\ UNCHANGED feVars

(* Mutant of Post: the command goes to the front of the queue. *)
PostFront(msg) == cmdq' = <<msg>> \o cmdq

(* sender.send(msg) of step, get_locals and get_backtrace. *)
Post(msg) == cmdq' = Append(cmdq, msg)

(* dbg.rs:182: step() posts Step, then waits. *)
Step ==
    /\ BeginCall("step", NoLevel, FALSE)
    /\ Len(cmdq) < MaxQueue
    /\ Post(DebugMsg("Step", NoLevel, ncalls + 1))
    /\ ctl_pc' = "step_recv"
    /\ ret' = NoRet
    /\ UNCHANGED <<exec_state, resp, nfail>>
    /\ UNCHANGED hookVars
    /\ UNCHANGED feVars

(* dbg.rs:196: get_locals(lvl) posts Locals(lvl), then waits. *)
GetLocals(lvl) ==
    /\ BeginCall("locals", lvl, FALSE)
    /\ Len(cmdq) < MaxQueue
    /\ Post(DebugMsg("Locals", lvl, ncalls + 1))
    /\ ctl_pc' = "locals_recv"
    /\ ret' = NoRet
    /\ UNCHANGED <<exec_state, resp, nfail>>
    /\ UNCHANGED hookVars
    /\ UNCHANGED feVars

(* dbg.rs:217: get_backtrace() posts Backtrace, then waits. *)
GetBacktrace ==
    /\ BeginCall("bt", NoLevel, FALSE)
    /\ Len(cmdq) < MaxQueue
    /\ Post(DebugMsg("Backtrace", NoLevel, ncalls + 1))
    /\ ctl_pc' = "bt_recv"
    /\ ret' = NoRet
    /\ UNCHANGED <<exec_state, resp, nfail>>
    /\ UNCHANGED hookVars
    /\ UNCHANGED feVars

(* The variant each waiting call accepts (dbg.rs:171, 184, 198, 219). *)
ExpectedKind(op) ==
    CASE op = "halt" -> "Event"
      [] op = "step" -> "Event"
      [] op = "locals" -> "Locals"
      [] op = "bt" -> "Backtrace"

(* Mutant of RecvResult: the variant of the response is not matched. *)
RecvResultAnyVariant(op, r) ==
    IF op = "locals" /\ ~r.some THEN "nolocals" ELSE "ok"

(* The match of each waiting call on a received response r               *)
(* (dbg.rs:170-174, 183-187, 197-207, 218-222).                          *)
RecvResult(op, r) ==
    IF r.k # ExpectedKind(op) THEN "mismatch"
    ELSE IF op = "locals" /\ ~r.some THEN "nolocals"
    ELSE "ok"

(* receiver.recv_timeout(RECV_TIMEOUT) takes the response a blocked send   *)
(* offers, and the call returns.                                           *)
Recv ==
    /\ ctl_pc \in WaitStates
    /\ resp # <<>>
    /\ LET r == Head(resp)
           res == RecvResult(call.op, r)
       IN /\ Returns(call.op, res, IF res = "ok" THEN r ELSE NoResp)
          /\ CountFail(res)
    /\ resp' = Tail(resp)
    /\ ctl_pc' = "idle"
    /\ UNCHANGED <<exec_state, cmdq, call, ncalls>>
    /\ UNCHANGED hookVars
    /\ UNCHANGED feVars

(* Mutant of TimeoutReturn: the timeout also resumes the VM. *)
TimeoutReturnResumes ==
    /\ Returns(call.op, "timeout", NoResp)
    /\ CountFail("timeout")
    /\ ctl_pc' = "idle"
    /\ exec_state' = "Running"
    /\ UNCHANGED <<cmdq, resp, call, ncalls>>
    /\ UNCHANGED hookVars
    /\ UNCHANGED feVars

(* What recv_timeout's Err(e) arm does (dbg.rs:173, 186, 206, 221). *)
TimeoutReturn ==
    /\ Returns(call.op, "timeout", NoResp)
    /\ CountFail("timeout")
    /\ ctl_pc' = "idle"
    /\ UNCHANGED <<exec_state, cmdq, resp, call, ncalls>>
    /\ UNCHANGED hookVars
    /\ UNCHANGED feVars

(* RECV_TIMEOUT passes with nothing offered: the VM thread took longer     *)
(* than the timeout to reach a send, or will never reach one.              *)
RecvTimeout ==
    /\ ctl_pc \in WaitStates
    /\ resp = <<>>
    /\ TimeoutReturn

(* dbg.rs:159-161: the caller receives on the raw receiver. *)
RawRecv ==
    /\ BeginCall("raw", NoLevel, FALSE)
    /\ resp # <<>>
    /\ Returns("raw", "ok", Head(resp))
    /\ resp' = Tail(resp)
    /\ UNCHANGED <<exec_state, cmdq, ctl_pc, nfail>>
    /\ UNCHANGED hookVars
    /\ UNCHANGED feVars

ControllerCall ==
    \/ Resume
    \/ \E no_recv \in BOOLEAN : Halt(no_recv)
    \/ Step
    \/ \E lvl \in Levels : GetLocals(lvl)
    \/ GetBacktrace
    \/ RawRecv

Next ==
    \/ HookStep
    \/ ControllerCall
    \/ Recv
    \/ RecvTimeout

Spec == Init /\ [][Next]_vars

(***************************************************************************)
(* The same system when the VM keeps raising debug events and every step   *)
(* of the VM thread takes less than RECV_TIMEOUT: a wait times out only    *)
(* in a state from which the hook offers nothing however long the          *)
(* controller waits.                                                       *)
(***************************************************************************)

OnlySteps(q) == \A i \in 1..Len(q) : q[i].t = "Step"

(* While the controller waits it changes neither exec_state nor cmdq.  The *)
(* hook then never reaches a send: nothing is offered, no Backtrace or     *)
(* Locals is queued, and either the state is Running (no Event on entry)   *)
(* or the hook spins in its loop with an empty queue.                      *)
NoResponseComing ==
    /\ resp = <<>>
    /\ hook_pc \notin SendStates
    /\ OnlySteps(cmdq)
    /\ \/ exec_state = "Running"
       \/ hook_pc \in LoopStates /\ cmdq = <<>>

RecvTimeoutStalled ==
    /\ ctl_pc \in WaitStates
    /\ NoResponseComing
    /\ TimeoutReturn

NextEvents ==
    \/ HookStep
    \/ ControllerCall
    \/ Recv
    \/ RecvTimeoutStalled

SpecEvents == Init /\ [][NextEvents]_vars

(* The VM thread is scheduled: a step of the hook that stays possible is   *)
(* eventually taken (the loop of dbg.rs:100-145 sleeps 50 ms at a time and *)
(* the VM goes on raising debug events).                                   *)
SpecEventsFair == SpecEvents /\ WF_vars(HookStep)


(***************************************************************************)
(* The same system when the controller may drop the facade.  SqDebugger    *)
(* has no Drop implementation: dropping it drops its fields, the Sender of *)
(* the command channel and the Receiver of the response channel among      *)
(* them; the closure attach gave to vm.set_debug_hook is not touched.      *)
(***************************************************************************)

(* The controller drops the SqDebugger between two calls (dbg.rs:61-66). *)
Drop ==
    /\ BeginCall("drop", NoLevel, FALSE)
    /\ ctl_pc' = "dropped"
    /\ Returns("drop", "none", NoResp)
    /\ UNCHANGED <<exec_state, cmdq, resp, nfail>>
    /\ UNCHANGED hookVars
    /\ UNCHANGED feVars

(* resp_tx.send(..).unwrap() with the Receiver dropped: send returns Err,  *)
(* handing the message back, and unwrap panics on the VM thread            *)
(* (dbg.rs:94-97, 112, 137).                                               *)
HookSendFails ==
    /\ ctl_pc = "dropped"
    /\ hook_pc \in SendStates
    /\ resp # <<>>
    /\ resp' = <<>>
    /\ hook_pc' = "panicked"
    /\ UNCHANGED <<exec_state, cmdq, hook_inv, stack, observed, released>>
    /\ UNCHANGED ctlVars
    /\ UNCHANGED feVars

NextDrop ==
    \/ HookStep
    \/ ControllerCall
    \/ Recv
    \/ RecvTimeout
    \/ Drop
    \/ HookSendFails

SpecDrop == Init /\ [][NextDrop]_vars


(***************************************************************************)
(* Strings.  A str is the sequence of its characters.                      *)
(***************************************************************************)

DigitChars == <<"0", "1", "2", "3", "4", "5", "6", "7", "8", "9">>

(* char::is_ascii_digit *)
IsAsciiDigit(c) == \E i \in 1..10 : DigitChars[i] = c

(* char::is_numeric: the ASCII digits and the other numeric characters,    *)
(* of which "sup2" (U+00B2, superscript two) stands here.                  *)
IsNumeric(c) == IsAsciiDigit(c) \/ c = "sup2"

(* char::is_alphabetic, on the letters used here. *)
IsAlphabetic(c) == c \in {"a", "b", "e", "f", "i", "l", "m", "r", "s", "t", "x"}

(* char::is_whitespace, on the characters used here. *)
IsWhitespace(c) == c \in {" ", "\n"}

(* str::split(c): the pieces between the occurrences of c; one (empty)     *)
(* piece for the empty string.                                             *)
RECURSIVE Split(_, _)
Split(s, c) ==
    IF \E i \in 1..Len(s) : s[i] = c
    THEN LET i == CHOOSE j \in 1..Len(s) :
                      s[j] = c /\ \A k \in 1..(j - 1) : s[k] # c
         IN <<SubSeq(s, 1, i - 1)>> \o Split(SubSeq(s, i + 1, Len(s)), c)
    ELSE <<s>>

(* str::lines: the pieces between newlines, without a final empty piece. *)
Lines(s) ==
    LET parts == Split(s, "\n")
    IN IF parts[Len(parts)] = <<>> THEN SubSeq(parts, 1, Len(parts) - 1)
       ELSE parts

(* str::trim *)
RECURSIVE Trim(_)
Trim(s) ==
    IF s # <<>> /\ IsWhitespace(s[1]) THEN Trim(Tail(s))
    ELSE IF s # <<>> /\ IsWhitespace(s[Len(s)]) THEN Trim(SubSeq(s, 1, Len(s) - 1))
    ELSE s

(* The value of a run of ASCII digits. *)
RECURSIVE DigitsValue(_)
DigitsValue(s) ==
    IF s = <<>> THEN 0
    ELSE 10 * DigitsValue(SubSeq(s, 1, Len(s) - 1))
         + (CHOOSE i \in 1..10 : DigitChars[i] = s[Len(s)]) - 1

AllAsciiDigits(s) == \A i \in 1..Len(s) : IsAsciiDigit(s[i])

(* str::parse into an unsigned integer: an optional "+", then at least one *)
(* digit; None stands for Err.                                             *)
ParseUnsigned(s) ==
    LET d == IF s # <<>> /\ s[1] = "+" THEN Tail(s) ELSE s
    IN IF d # <<>> /\ AllAsciiDigits(d) THEN Some(DigitsValue(d)) ELSE None

(* str::parse into a signed integer: an optional "+" or "-". *)
ParseSigned(s) ==
    IF s # <<>> /\ s[1] = "-"
    THEN IF Tail(s) # <<>> /\ AllAsciiDigits(Tail(s))
         THEN Some(0 - DigitsValue(Tail(s))) ELSE None
    ELSE ParseUnsigned(s)


(***************************************************************************)
(* The frontend: script buffers, evaluation, saved state                   *)
(* (util.rs:436-541, 606-624, 647-681).                                    *)
(***************************************************************************)

(* ScriptBuffers::add (util.rs:659-663); the number returned is the old    *)
(* counter.                                                                *)
ScriptBuffersAdd(b, buf) ==
    [store |-> Append(b.store, [num |-> b.counter, buf |-> buf]),
     counter |-> b.counter + 1]

(* ScriptBuffers::get (util.rs:666-668) *)
ScriptBuffersGet(b, number) ==
    LET hits == {i \in 1..Len(b.store) : b.store[i].num = number}
    IN IF hits = {} THEN None
       ELSE Some(b.store[CHOOSE i \in hits : \A j \in hits : i <= j].buf)

(* Mutant of ScriptBuffersReplace: a number that is not there is added. *)
ScriptBuffersReplaceOrAdd(b, number, buf) ==
    LET hits == {i \in 1..Len(b.store) : b.store[i].num = number}
        first == CHOOSE i \in hits : \A j \in hits : i <= j
    IN IF hits = {} THEN [b EXCEPT !.store = Append(b.store, [num |-> number, buf |-> buf])]
       ELSE [b EXCEPT !.store[first] = [num |-> number, buf |-> buf]]

(* ScriptBuffers::replace (util.rs:671-675) *)
ScriptBuffersReplace(b, number, buf) ==
    LET hits == {i \in 1..Len(b.store) : b.store[i].num = number}
        first == CHOOSE i \in hits : \A j \in hits : i <= j
    IN IF hits = {} THEN b
       ELSE [b EXCEPT !.store[first] = [num |-> number, buf |-> buf]]

(* ScriptBuffers::delete (util.rs:678-680) *)
ScriptBuffersDelete(b, number) ==
    LET keep(e) == e.num # number
    IN [b EXCEPT !.store = SelectSeq(b.store, keep)]

(* The scripts the user types into the editor. *)
Scripts ==
    { <<>>,
      <<"x">>,
      <<"|", "1", ".", "a", "|", "\n", "a">>,
      <<"|", "a", "|", "\n", "a">>,
      <<"|", "x", ".", "a", "|">> }

(* edit_buffer (util.rs:422-433): None stands for Err. *)
EditorResults == {None} \cup {Some(t) : t \in Scripts}

BufferNumbers == 1..MaxCounter

(* One entry of the capture list (util.rs:470-483). *)
CaptureSpec(spec) ==
    LET parts == Split(Trim(spec), ".")
    IN IF Len(parts) = 2 /\ parts[2] # <<>> /\ IsAlphabetic(parts[2][1])
       THEN IF ParseUnsigned(parts[1]) # None
            THEN [res |-> "ok", name |-> parts[2], lvl |-> ParseUnsigned(parts[1])[1]]
            ELSE [res |-> "invalid_level", name |-> <<>>, lvl |-> 0]
       ELSE [res |-> "invalid_spec", name |-> <<>>, lvl |-> 0]

(* The loop over the capture list (util.rs:469-484): the first entry that  *)
(* is not valid ends eval_script.                                          *)
RECURSIVE CaptureLoop(_)
CaptureLoop(specs) ==
    IF specs = <<>> THEN [res |-> "ok", capture |-> <<>>]
    ELSE LET c == CaptureSpec(Head(specs)) IN
         IF c.res # "ok" THEN [res |-> c.res, capture |-> <<>>]
         ELSE LET rest == CaptureLoop(Tail(specs)) IN
              IF rest.res # "ok" THEN rest
              ELSE [res |-> "ok",
                    capture |-> <<[name |-> c.name, lvl |-> c.lvl]>> \o rest.capture]

(* String::collect of the lines after the first (util.rs:487). *)
RECURSIVE Concat(_)
Concat(ls) == IF ls = <<>> THEN <<>> ELSE Head(ls) \o Concat(Tail(ls))

(* util.rs:459-491: the script to run and the captured locals, or why      *)
(* eval_script returns before evaluating.                                  *)
ParseCapture(script) ==
    IF Lines(script) = <<>>
    THEN [res |-> "empty", script |-> <<>>, capture |-> <<>>]
    ELSE LET line == Trim(Lines(script)[1]) IN
         IF line = <<>> \/ line[1] # "|" \/ line[Len(line)] # "|"
         THEN [res |-> "run", script |-> script, capture |-> <<>>]
         ELSE IF Len(line) = 1
         THEN [res |-> "panic", script |-> <<>>, capture |-> <<>>]
         ELSE LET loop == CaptureLoop(Split(SubSeq(line, 2, Len(line) - 1), ","))
              IN IF loop.res # "ok"
                 THEN [res |-> loop.res, script |-> <<>>, capture |-> <<>>]
                 ELSE [res |-> "run", script |-> Concat(Tail(Lines(script))),
                       capture |-> loop.capture]

Printed(cmd, res, arg, val) ==
    out' = [cmd |-> cmd, res |-> res, arg |-> arg, val |-> val]

(* util.rs:458-493, once the script is chosen: b is the script buffers     *)
(* after the choice, added the number add returned (0: nothing added).     *)
EvalPrepare(debug, b, script, added) ==
    LET c == ParseCapture(script) IN
    /\ buffers' = b
    /\ maxid' = IF added > maxid THEN added ELSE maxid
    /\ IF c.res = "run"
       THEN /\ during_eval' = TRUE
            /\ fe_pc' = "eval"
            /\ fe_cmd' = [debug |-> debug, script |-> c.script, capture |-> c.capture]
            /\ Printed("eval", "evaluating", maxid, added)
       ELSE /\ fe_pc' = IF c.res = "panic" THEN "panicked" ELSE "idle"
            /\ Printed("eval", c.res, maxid, added)
            /\ UNCHANGED <<during_eval, fe_cmd>>

(* util.rs:437: eval_script returns at once in this case. *)
EvalGuard == during_eval

(* eval_script up to line 493 (util.rs:436-493). *)
EvalScript(debug, buffer) ==
    /\ fe_pc = "idle"
    /\ debug => watchers < MaxWatchers
    /\ IF EvalGuard
       THEN /\ Printed("eval", "rejected", maxid, 0)
            /\ UNCHANGED <<buffers, during_eval, fe_pc, fe_cmd, maxid>>
       ELSE IF buffer # None /\ ScriptBuffersGet(buffers, buffer[1]) # None
       THEN EvalPrepare(debug, buffers, ScriptBuffersGet(buffers, buffer[1])[1], 0)
       ELSE /\ buffers.counter < MaxCounter
            /\ \E ed \in EditorResults :
                   IF ed = None
                   THEN /\ Printed("eval", "editor_failed", maxid, 0)
                        /\ UNCHANGED <<buffers, during_eval, fe_pc, fe_cmd, maxid>>
                   ELSE EvalPrepare(debug, ScriptBuffersAdd(buffers, ed[1]),
                                    ed[1], buffers.counter)
    /\ UNCHANGED <<watchers, saved, bps>>
    /\ UNCHANGED dbgVars

(* Mutant of EvalRun: the flag stays set while a deferred result is        *)
(* awaited.                                                                *)
EvalRunKeepsFlag ==
    /\ fe_pc = "eval"
    /\ \E ok \in BOOLEAN :
           /\ watchers' = IF fe_cmd.debug /\ ok THEN watchers + 1 ELSE watchers
           /\ Printed("eval",
                      IF ~ok THEN "failed"
                      ELSE IF fe_cmd.debug THEN "deferred" ELSE "result",
                      out.arg, out.val)
           /\ during_eval' = (fe_cmd.debug /\ ok)
    /\ fe_pc' = "idle"
    /\ fe_cmd' = NoEval
    /\ UNCHANGED <<buffers, saved, bps, maxid>>
    /\ UNCHANGED dbgVars

(* eval_script from line 495 (util.rs:495-510): dbg.execute returns the    *)
(* result; dbg.execute_debug returns the deferred result, for which a      *)
(* thread is spawned, or fails; then the flag is cleared.                  *)
EvalRun ==
    /\ fe_pc = "eval"
    /\ \E ok \in BOOLEAN :
           /\ watchers' = IF fe_cmd.debug /\ ok THEN watchers + 1 ELSE watchers
           /\ Printed("eval",
                      IF ~ok THEN "failed"
                      ELSE IF fe_cmd.debug THEN "deferred" ELSE "result",
                      out.arg, out.val)
    /\ during_eval' = FALSE
    /\ fe_pc' = "idle"
    /\ fe_cmd' = NoEval
    /\ UNCHANGED <<buffers, saved, bps, maxid>>
    /\ UNCHANGED dbgVars

(* util.rs:505: the deferred result arrives and the waiting thread ends. *)
WatcherDone ==
    /\ watchers > 0
    /\ watchers' = watchers - 1
    /\ UNCHANGED <<buffers, during_eval, fe_pc, fe_cmd, saved, bps, maxid, out>>
    /\ UNCHANGED dbgVars

(* BufferCommands::New (util.rs:516-519) *)
BufferNew ==
    /\ fe_pc = "idle"
    /\ buffers.counter < MaxCounter
    /\ \E ed \in EditorResults :
           IF ed = None
           THEN /\ Printed("new", "editor_failed", maxid, 0)
                /\ UNCHANGED <<buffers, maxid>>
           ELSE /\ buffers' = ScriptBuffersAdd(buffers, ed[1])
                /\ Printed("new", "added", maxid, buffers'.counter - 1)
                /\ maxid' = IF buffers.counter > maxid THEN buffers.counter ELSE maxid
    /\ UNCHANGED <<during_eval, fe_pc, fe_cmd, watchers, saved, bps>>
    /\ UNCHANGED dbgVars

(* BufferCommands::Delete (util.rs:521) *)
BufferDelete(num) ==
    /\ fe_pc = "idle"
    /\ buffers' = ScriptBuffersDelete(buffers, num)
    /\ Printed("delete", "done", num, 0)
    /\ UNCHANGED <<during_eval, fe_pc, fe_cmd, watchers, saved, bps, maxid>>
    /\ UNCHANGED dbgVars

(* BufferCommands::Edit (util.rs:522-530) *)
BufferEdit(num) ==
    /\ fe_pc = "idle"
    /\ IF ScriptBuffersGet(buffers, num) = None
       THEN Printed("edit", "no_such_buffer", num, 0) /\ UNCHANGED buffers
       ELSE \E ed \in EditorResults :
                IF ed = None
                THEN Printed("edit", "editor_failed", num, 0) /\ UNCHANGED buffers
                ELSE /\ buffers' = ScriptBuffersReplace(buffers, num, ed[1])
                     /\ Printed("edit", "done", num, 0)
    /\ UNCHANGED <<during_eval, fe_pc, fe_cmd, watchers, saved, bps, maxid>>
    /\ UNCHANGED dbgVars

(* Commands::Save (util.rs:615-624): the file holds a copy of the buffers  *)
(* and of the breakpoint store, unless it cannot be written.               *)
Save ==
    /\ fe_pc = "idle"
    /\ \E ok \in BOOLEAN :
           IF ok
           THEN /\ saved' = Some([buffers |-> buffers, breakpoints |-> bps])
                /\ Printed("save", "done", 0, 0)
           ELSE /\ Printed("save", "failed", 0, 0)
                /\ UNCHANGED saved
    /\ UNCHANGED <<buffers, during_eval, fe_pc, fe_cmd, watchers, bps, maxid>>
    /\ UNCHANGED dbgVars

(* Commands::Load (util.rs:606-613): the buffers, counter included, and    *)
(* the breakpoints are replaced by those of the file.                      *)
Load ==
    /\ fe_pc = "idle"
    /\ IF saved = None
       THEN /\ Printed("load", "failed", 0, 0)
            /\ UNCHANGED <<buffers, bps>>
       ELSE /\ buffers' = saved[1].buffers
            /\ bps' = saved[1].breakpoints
            /\ Printed("load", "done", 0, 0)
    /\ UNCHANGED <<during_eval, fe_pc, fe_cmd, watchers, saved, maxid>>
    /\ UNCHANGED dbgVars

NextFrontend ==
    \/ \E debug \in BOOLEAN, buffer \in {None} \cup {Some(n) : n \in BufferNumbers} :
           EvalScript(debug, buffer)
    \/ EvalRun
    \/ WatcherDone
    \/ BufferNew
    \/ \E num \in BufferNumbers : BufferDelete(num)
    \/ \E num \in BufferNumbers : BufferEdit(num)
    \/ Save
    \/ Load

SpecFrontend == Init /\ [][NextFrontend]_vars


(***************************************************************************)
(* The frontend: breakpoints (util.rs:382-419).  SqBreakpoint and the      *)
(* breakpoint store belong to the debugger; of them the frontend uses the  *)
(* builder new/src_file/fn_name/line and the store's add.                  *)
(***************************************************************************)

(* SqBreakpoint::new and its builder methods: each sets one field. *)
SqBreakpointNew == [src_file |-> None, fn_name |-> None, line |-> None]
WithSrcFile(bp, src) == [bp EXCEPT !.src_file = Some(src)]
WithFnName(bp, func) == [bp EXCEPT !.fn_name = Some(func)]
WithLine(bp, line) == [bp EXCEPT !.line = Some(line)]

(* dbg.breakpoints().add(bp) *)
BreakpointStoreAdd(store, bp) == Append(store, bp)

FileKeyword == <<"f", "i", "l", "e">>

(* Mutant of IsFuncToken: any token passes for a function name. *)
IsFuncTokenAny(t) == TRUE

(* func.starts_with(|c: char| !c.is_numeric()) (util.rs:399, 407) *)
IsFuncToken(t) == t # <<>> /\ ~IsNumeric(t[1])

(* line.chars().all(|c| c.is_ascii_digit()) (util.rs:400, 404); true of   *)
(* the empty token.                                                        *)
IsLineToken(t) == AllAsciiDigits(t)

(* bp_proto.line(line.parse().unwrap()) (util.rs:402, 405): a token that   *)
(* does not parse panics.                                                  *)
SetLine(bp, t) ==
    IF ParseUnsigned(t) = None THEN [res |-> "panic", bp |-> bp]
    ELSE [res |-> "add", bp |-> WithLine(bp, ParseUnsigned(t)[1])]

(* util.rs:384-416: the record add_breakpoint builds from spec, or why it  *)
(* builds none.                                                            *)
ParseBreakpoint(spec) ==
    LET toks == Split(spec, ":")
        has_file == Len(toks) >= 2 /\ toks[1] = FileKeyword
        bp_proto == IF has_file THEN WithSrcFile(SqBreakpointNew, toks[2])
                    ELSE SqBreakpointNew
        rest == IF has_file THEN SubSeq(toks, 3, Len(toks)) ELSE toks
    IN IF Len(rest) = 2 /\ IsFuncToken(rest[1]) /\ IsLineToken(rest[2])
       THEN SetLine(WithFnName(bp_proto, rest[1]), rest[2])
       ELSE IF Len(rest) = 1 /\ IsLineToken(rest[1])
       THEN SetLine(bp_proto, rest[1])
       ELSE IF Len(rest) = 1 /\ IsFuncToken(rest[1])
       THEN [res |-> "add", bp |-> WithFnName(bp_proto, rest[1])]
       ELSE IF rest = <<>>
       THEN [res |-> "add", bp |-> bp_proto]
       ELSE [res |-> "invalid", bp |-> SqBreakpointNew]

(* The specifications the user gives to the breakpoint command. *)
BreakpointSpecs ==
    {
      <<"f", "i", "l", "e", ":", "s", ":", "f", ":", "7">>,
      <<"7">>,
      <<"f">>,
      <<"f", ":", "7">>,
      <<"f", "i", "l", "e", ":", "s">>,
      <<"f", "i", "l", "e", ":", "s", ":", "7">>,
      <<"f", "i", "l", "e", ":", "s", ":", "f">>,
      <<"1", ":", "2">>,
      <<"f", "i", "l", "e", ":">>,
      <<"f", ":">>,
      <<"f", "i", "l", "e", ":", "s", ":">>,
      <<"7", "x">>,
      <<"sup2">>,
      <<"a", ":", "b", ":", "f">>,
      <<"f", "i", "l", "e">>,
      <<"f", ":", "x">>,
      <<"f", "i", "l", "e", ":", "s", ":", "f", ":", "7", ":", "9">>,
      <<":", "7">>
    }

(* Commands::BreakpointAdd: add_breakpoint(dbg, spec) (util.rs:383-419). *)
AddBreakpoint(spec) ==
    /\ fe_pc = "idle"
    /\ LET p == ParseBreakpoint(spec) IN
       /\ p.res = "add" => Len(bps) < MaxBps
       /\ bps' = IF p.res = "add" THEN BreakpointStoreAdd(bps, p.bp) ELSE bps
       /\ fe_pc' = IF p.res = "panic" THEN "panicked" ELSE "idle"
       /\ Printed("b", p.res, spec, p.bp)
    /\ UNCHANGED <<buffers, during_eval, fe_cmd, watchers, saved, maxid>>
    /\ UNCHANGED dbgVars


(***************************************************************************)
(* The frontend: examine (util.rs:290-380).                                *)
(***************************************************************************)

(* enum DynSqVar, the variants used here. *)
SqInteger(i) == [t |-> "Integer", v |-> i]
SqString(str) == [t |-> "String", v |-> str]
SqTable(entries) == [t |-> "Table", v |-> entries]
SqArray(items) == [t |-> "Array", v |-> items]
SqClass(entries) == [t |-> "Class", v |-> entries]
SqInstance(entries) == [t |-> "Instance", v |-> entries]

(* The locals of the halted VM: Frames[l] are the locals of level l.       *)
(* Level 2 has `this`, a table whose key itemsArr maps to an array with    *)
(* 42 at index 0.                                                          *)
Frames ==
    << << [name |-> <<"x">>, val |-> SqInteger(7)],
          [name |-> <<"t", "h", "i", "s">>,
           val |-> SqTable(<<[k |-> SqString(<<"a">>), v |-> SqInteger(5)]>>)] >>,
       << [name |-> <<"t", "h", "i", "s">>,
           val |-> SqTable(<<
               [k |-> SqString(<<"i", "t", "e", "m", "s", "A", "r", "r">>),
                v |-> SqArray(<<SqInteger(42), SqInteger(43)>>)],
               [k |-> SqInteger(1), v |-> SqString(<<"o">>)] >>)] >> >>

(* Eager expansion of containers to a depth: 0 does not expand, 1 expands  *)
(* this container, 2 this container and its children, and so on.           *)
RECURSIVE Expand(_, _)
Expand(val, depth) ==
    IF val.t = "Table"
    THEN IF depth = 0 THEN SqTable(<<>>)
         ELSE SqTable([i \in 1..Len(val.v) |->
                          [k |-> val.v[i].k, v |-> Expand(val.v[i].v, depth - 1)]])
    ELSE IF val.t = "Array"
    THEN IF depth = 0 THEN SqArray(<<>>)
         ELSE SqArray([i \in 1..Len(val.v) |-> Expand(val.v[i], depth - 1)])
    ELSE val

(* The locals of one level, expanded. *)
LocalsOfLevel(lvl, depth) ==
    [i \in 1..Len(Frames[lvl]) |->
        [name |-> Frames[lvl][i].name, val |-> Expand(Frames[lvl][i].val, depth),
         lvl |-> lvl]]

RECURSIVE LocalsFromLevel(_, _)
LocalsFromLevel(lvl, depth) ==
    IF lvl > Len(Frames) THEN <<>>
    ELSE LocalsOfLevel(lvl, depth) \o LocalsFromLevel(lvl + 1, depth)

(* dbg.get_locals(level, depth): the locals of the level, or of all        *)
(* levels; None stands for Err, returned when there are none.              *)
GetLocalsExpanded(level, depth) ==
    LET v == IF level = None THEN LocalsFromLevel(1, depth)
             ELSE IF level[1] \in 1..Len(Frames) THEN LocalsOfLevel(level[1], depth)
             ELSE <<>>
    IN IF v = <<>> THEN None ELSE Some(v)

(* Mutant of FindEntry: the last matching entry is taken. *)
FindEntryLast(map, key, index) ==
    LET hit(e) == \/ index # None /\ e.k.t = "Integer" /\ e.k.v = index[1]
                  \/ e.k.t = "String" /\ e.k.v = key
        hits == {i \in 1..Len(map) : hit(map[i])}
    IN IF hits = {} THEN None
       ELSE Some(map[CHOOSE i \in hits : \A j \in hits : i >= j].v)

(* The first entry of a table whose key matches the segment               *)
(* (util.rs:304-313).                                                      *)
FindEntry(map, key, index) ==
    LET hit(e) == \/ index # None /\ e.k.t = "Integer" /\ e.k.v = index[1]
                  \/ e.k.t = "String" /\ e.k.v = key
        hits == {i \in 1..Len(map) : hit(map[i])}
    IN IF hits = {} THEN None
       ELSE Some(map[CHOOSE i \in hits : \A j \in hits : i <= j].v)

(* match_local_path (util.rs:291-330) *)
RECURSIVE MatchLocalPath(_, _)
MatchLocalPath(path, root) ==
    IF path = <<>> THEN None
    ELSE LET key == Head(path)
             index == ParseSigned(key)
             child == IF root.t \in {"Table", "Class", "Instance"}
                      THEN FindEntry(root.v, key, index)
                      ELSE IF root.t = "Array"
                      THEN IF index # None /\ index[1] >= 0 /\ index[1] < Len(root.v)
                           THEN Some(root.v[index[1] + 1])
                           ELSE None
                      ELSE None
         IN IF child = None THEN None
            ELSE IF Tail(path) = <<>> THEN child
            ELSE MatchLocalPath(Tail(path), child[1])

(* Mutant of ExamineLevel: the level argument wins over the path's. *)
ExamineLevelKeepsArgument(parsed, level) ==
    IF level # None THEN level ELSE parsed

(* util.rs:341-342: a first segment that parses as a level replaces the    *)
(* level argument.                                                         *)
ExamineLevel(parsed, level) ==
    IF parsed # None THEN parsed ELSE level

(* The loop over the locals (util.rs:358-373). *)
RECURSIVE ExamineLoop(_, _, _)
ExamineLoop(locs, root_name, rest) ==
    IF locs = <<>> THEN [res |-> "failed", val |-> 0]
    ELSE IF Head(locs).name # root_name THEN ExamineLoop(Tail(locs), root_name, rest)
    ELSE IF rest = <<>> THEN [res |-> "value", val |-> Head(locs).val]
    ELSE IF MatchLocalPath(rest, Head(locs).val) # None
    THEN [res |-> "value", val |-> MatchLocalPath(rest, Head(locs).val)[1]]
    ELSE ExamineLoop(Tail(locs), root_name, rest)

(* examine (util.rs:335-380): what it prints. *)
ExamineResult(path, level, depth) ==
    LET segs == Split(path, ".")
        parsed == ParseUnsigned(segs[1])
    IN IF parsed # None /\ Len(segs) = 1
       THEN [res |-> "only_level", val |-> 0]
       ELSE LET root_name == IF parsed # None THEN segs[2] ELSE segs[1]
                rest == SubSeq(segs, IF parsed # None THEN 3 ELSE 2, Len(segs))
                locs == GetLocalsExpanded(ExamineLevel(parsed, level),
                                          depth + Len(rest))
            IN IF locs = None THEN [res |-> "no_locals", val |-> 0]
               ELSE ExamineLoop(locs[1], root_name, rest)

(* The paths the user gives to the examine command. *)
ExaminePaths ==
    {
      <<"2", ".", "t", "h", "i", "s", ".", "i", "t", "e", "m", "s", "A", "r", "r", ".", "0">>,
      <<"t", "h", "i", "s", ".", "i", "t", "e", "m", "s", "A", "r", "r", ".", "0">>,
      <<"2", ".", "t", "h", "i", "s", ".", "i", "t", "e", "m", "s", "A", "r", "r", ".", "1">>,
      <<"2", ".", "t", "h", "i", "s", ".", "i", "t", "e", "m", "s", "A", "r", "r", ".", "2">>,
      <<"2", ".", "t", "h", "i", "s", ".", "i", "t", "e", "m", "s", "A", "r", "r", ".", "-", "1">>,
      <<"2", ".", "t", "h", "i", "s", ".", "i", "t", "e", "m", "s", "A", "r", "r", ".", "x">>,
      <<"2", ".", "t", "h", "i", "s">>,
      <<"2", ".", "t", "h", "i", "s", ".", "1">>,
      <<"1", ".", "x">>,
      <<"x">>,
      <<"x", ".", "a">>,
      <<"2", ".", "x">>,
      <<"2">>,
      <<"3", ".", "t", "h", "i", "s">>,
      <<"t", "h", "i", "s", ".", "a">>,
      <<"1", ".", "t", "h", "i", "s", ".", "a">>,
      <<"1", ".", "t", "h", "i", "s", ".", "a", ".", "b">>,
      <<"2", ".", "t", "h", "i", "s", ".", "i", "t", "e", "m", "s", "A", "r", "r">>
    }

ExamineLevels == {None, Some(1), Some(2)}
ExamineDepths == {0, 1, 2}

(* Commands::Examine (util.rs:588-589) *)
Examine(path, level, depth) ==
    /\ fe_pc = "idle"
    /\ LET r == ExamineResult(path, level, depth)
       IN Printed("x", r.res, [path |-> path, level |-> level, depth |-> depth],
                  r.val)
    /\ UNCHANGED <<buffers, during_eval, fe_pc, fe_cmd, watchers, saved, bps, maxid>>
    /\ UNCHANGED dbgVars

NextExamine ==
    \E path \in ExaminePaths, level \in ExamineLevels, depth \in ExamineDepths :
        Examine(path, level, depth)

SpecExamine == Init /\ [][NextExamine]_vars

(***************************************************************************)
(* match_local_path on its own (util.rs:291-330): the values it is given   *)
(* as root and the paths it is given, as sequences of segments.            *)
(***************************************************************************)

MaxPathLen == 2

MatchRoots ==
    { SqTable(<< [k |-> SqString(<<"a">>), v |-> SqInteger(5)],
                 [k |-> SqInteger(1), v |-> SqString(<<"o">>)],
                 [k |-> SqString(<<"1">>), v |-> SqInteger(7)],
                 [k |-> SqString(<<"t">>),
                  v |-> SqArray(<<SqInteger(42), SqInteger(43)>>)] >>),
      SqClass(<< [k |-> SqString(<<"1">>), v |-> SqInteger(7)],
                 [k |-> SqInteger(1), v |-> SqInteger(8)],
                 [k |-> SqString(<<"a">>),
                  v |-> SqInstance(<<[k |-> SqString(<<"a">>),
                                      v |-> SqInteger(6)]>>)] >>),
      SqInstance(<< [k |-> SqInteger(0 - 1), v |-> SqInteger(9)],
                    [k |-> SqString(<<"a">>),
                     v |-> SqTable(<<[k |-> SqInteger(0), v |-> SqInteger(3)]>>)],
                    [k |-> SqString(<<"a">>), v |-> SqInteger(4)] >>),
      SqArray(<< SqInteger(42),
                 SqTable(<<[k |-> SqString(<<"a">>), v |-> SqInteger(5)]>>),
                 SqArray(<<SqInteger(1)>>) >>),
      SqTable(<<>>),
      SqArray(<<>>),
      SqInteger(7),
      SqString(<<"a">>) }

MatchSegments ==
    { <<"a">>, <<"t">>, <<"x">>, <<>>, <<"0">>, <<"1">>, <<"2">>, <<"3">>,
      <<"-", "1">>, <<"+", "1">>, <<"0", "1">>, <<"-", "0">>, <<"-">> }

MatchPaths ==
    UNION {[1..n -> MatchSegments] : n \in 0..MaxPathLen}

(* match_local_path(path, root) is called, once, and its result kept. *)
MatchPath(path, root) ==
    /\ out.cmd = "none"
    /\ LET r == MatchLocalPath(path, root)
       IN Printed("m", IF r = None THEN "none" ELSE "some",
                  [path |-> path, root |-> root], r)
    /\ UNCHANGED <<buffers, during_eval, fe_pc, fe_cmd, watchers, saved, bps, maxid>>
    /\ UNCHANGED dbgVars

NextMatch == \E path \in MatchPaths, root \in MatchRoots : MatchPath(path, root)

SpecMatch == Init /\ [][NextMatch]_vars

(***************************************************************************)
(* ScriptBuffers on its own (util.rs:647-681): add, replace and delete     *)
(* applied to the buffers that add, replace and delete have built.         *)
(***************************************************************************)

MaxAdds == 3

BufferTexts == {<<>>, <<"x">>}

(* The numbers given to replace and delete: those add has returned and     *)
(* one it has not.                                                         *)
GivenNumbers == 1..(MaxAdds + 1)

(* buffers.add(buf) *)
AddBuffer(buf) ==
    /\ buffers.counter <= MaxAdds
    /\ buffers' = ScriptBuffersAdd(buffers, buf)
    /\ Printed("add", "done", [num |-> buffers.counter, buf |-> buf,
                               before |-> buffers], 0)
    /\ UNCHANGED <<during_eval, fe_pc, fe_cmd, watchers, saved, bps, maxid>>
    /\ UNCHANGED dbgVars

(* buffers.replace(number, buf) *)
ReplaceBuffer(number, buf) ==
    /\ buffers' = ScriptBuffersReplace(buffers, number, buf)
    /\ Printed("replace", "done", [num |-> number, buf |-> buf,
                                   before |-> buffers], 0)
    /\ UNCHANGED <<during_eval, fe_pc, fe_cmd, watchers, saved, bps, maxid>>
    /\ UNCHANGED dbgVars

(* buffers.delete(number) *)
DeleteBuffer(number) ==
    /\ buffers' = ScriptBuffersDelete(buffers, number)
    /\ Printed("delete", "done", [num |-> number, buf |-> <<>>,
                                  before |-> buffers], 0)
    /\ UNCHANGED <<during_eval, fe_pc, fe_cmd, watchers, saved, bps, maxid>>
    /\ UNCHANGED dbgVars

NextBuffers ==
    \/ \E buf \in BufferTexts : AddBuffer(buf)
    \/ \E number \in GivenNumbers, buf \in BufferTexts : ReplaceBuffer(number, buf)
    \/ \E number \in GivenNumbers : DeleteBuffer(number)

SpecBuffers == Init /\ [][NextBuffers]_vars

NextBreakpoints == \E spec \in BreakpointSpecs : AddBreakpoint(spec)

SpecBreakpoints == Init /\ [][NextBreakpoints]_vars


(***************************************************************************)
(* Properties.                                                             *)
(***************************************************************************)

(* A facade call begins in this step. *)
Calls(op) == ncalls' # ncalls /\ call'.op = op

(* C1 (as claimed): a successful step() returns the Event of a hook        *)
(* invocation that began after the step() call was made, never an Event    *)
(* the hook had produced or was offering before the call.                  *)
C1_StepReturnsNextEvent ==
    (ret.op = "step" /\ ret.res = "ok") => ret.val.inv > call.inv

(* C2 (as claimed): halt(no_recv = false) called in state Running, with    *)
(* the VM raising debug events, returns Ok(Some(event)), and the hook      *)
(* invocation that emitted the event is held inside the hook when halt     *)
(* has returned.  (A halt that returns Ok(None) did not wait.)             *)
C2_HaltReceivesEvent ==
    (ret.op = "halt" /\ ret.res # "none")
        => /\ ret.res = "ok"
           /\ hook_inv = ret.val.inv
           /\ hook_pc \in SendStates \cup LoopStates


(* Once nothing is coming, nothing comes while the controller waits: the   *)
(* guard of RecvTimeoutStalled is stable under the steps of the hook.      *)
NoResponseComingStable ==
    [][(ctl_pc \in WaitStates /\ NoResponseComing)
           => (NoResponseComing' \/ ctl_pc' = "idle")]_vars

(* The VM thread is at rest in a blocking call of the hook: asleep in the  *)
(* loop, or in a send whose response nobody is receiving.                  *)
VmBlocked ==
    \/ hook_pc = "sleep"
    \/ hook_pc \in SendStates /\ resp # <<>> /\ ctl_pc = "idle"

(* C3 (as claimed): the VM thread is blocked inside the hook if and only   *)
(* if the Execution State most recently observed by the hook is Halted     *)
(* and the hook has not since processed a Step or a Running transition.    *)
(* Stated where the VM thread is at rest: outside the hook, or blocked.    *)
C3_BlockedIffHalted ==
    (hook_pc = "vm" \/ VmBlocked)
        => (VmBlocked <=> (observed = "Halted" /\ ~released))

(* C5 (as claimed): after a single failed call, the next step,             *)
(* get_backtrace or get_locals issued while the VM thread is halted in     *)
(* the hook receives a response of its own variant that answers its own    *)
(* command: no wrong-variant error, no answer to an earlier command.       *)
C5_UsableAfterFailure ==
    (/\ ret.op \in {"step", "bt", "locals"}
     /\ call.fails = 1
     /\ call.pc # "vm"
     /\ exec_state = "Halted")
        => /\ ret.res # "mismatch"
           /\ (ret.res = "ok" /\ ret.op = "step") => ret.val.inv > call.inv
           /\ (ret.res \in {"ok", "nolocals"} /\ ret.op # "step")
                  => ret.val.call \in {call.id, 0}

(* C8 (as claimed): a hook invocation that is in its polling loop when     *)
(* resume() is called leaves the loop within one poll iteration unless a   *)
(* halt() intervenes; so while resume() is the latest call and that        *)
(* invocation lasts, it is never blocked in a send that only a further     *)
(* call of the controller can complete.                                    *)
C8_ResumeReleasesLoop ==
    (/\ ret.op = "resume"
     /\ call.pc \in LoopStates
     /\ hook_inv = call.inv)
        => ~(hook_pc \in SendStates /\ resp # <<>>)


(* C4: at most one response is outstanding.  The channel never holds more  *)
(* than the one response a blocked send offers; the hook leaves a send     *)
(* only after its response has been taken; a response leaves the channel   *)
(* only into a receive of the controller, which returns from its wait      *)
(* (or from the raw receive) with it; and no wait times out on an offered  *)
(* response.                                                               *)
C4_Inv ==
    /\ Len(resp) <= 1
    /\ resp # <<>> => hook_pc \in SendStates

C4_Act ==
    /\ (hook_pc \in SendStates /\ hook_pc' \notin SendStates) => resp = <<>>
    /\ (resp # <<>> /\ resp' # resp)
           => /\ resp' = <<>>
              /\ ctl_pc' = "idle"
              /\ ncalls' # ncalls \/ ctl_pc \in WaitStates
              /\ ret'.val = Head(resp) \/ ret'.res \in {"mismatch", "nolocals"}
    /\ (ctl_pc \in WaitStates /\ resp # <<>> /\ ctl_pc' = "idle")
           => ret'.res # "timeout"

C4_OneOutstanding == []C4_Inv /\ [][C4_Act]_vars

C4_Witness ==
    /\ ret.op = "bt" /\ ret.res = "ok"
    /\ ret.val.inv = hook_inv
    /\ hook_pc = "check"
    /\ resp = <<>>

(* C6: step() posts exactly one Step and waits; the hook invocation that   *)
(* takes a Step returns to the VM without touching the Execution State or  *)
(* the response channel; an invocation that loads Halted on entry sends    *)
(* its own Event; and a step() called while the hook is held in its loop   *)
(* (Halted, nothing queued or offered) either times out or returns the     *)
(* Event of the very next invocation, which is then held in the hook with  *)
(* the state still Halted and the queue empty.                             *)
C6_Inv ==
    (ret.op = "step" /\ call.clean)
        => /\ ret.res \in {"ok", "timeout"}
           /\ ret.res = "ok"
                  => /\ ret.val = RespEvent(call.inv + 1)
                     /\ hook_inv = call.inv + 1
                     /\ hook_pc \in {"send_event"} \cup LoopStates
                     /\ exec_state = "Halted"
                     /\ cmdq = <<>>

C6_Act ==
    /\ Calls("step")
           => /\ cmdq' = Append(cmdq, [t |-> "Step", lvl |-> NoLevel,
                                       call |-> ncalls + 1])
              /\ ctl_pc' = "step_recv"
              /\ UNCHANGED <<exec_state, resp>>
    /\ (hook_pc = "poll" /\ hook_pc' # "poll" /\ cmdq # <<>>
            /\ Head(cmdq).t = "Step")
           => /\ hook_pc' = "vm"
              /\ cmdq' = Tail(cmdq)
              /\ UNCHANGED <<exec_state, resp, hook_inv>>
    /\ (hook_pc = "entry" /\ hook_pc' # "entry" /\ exec_state = "Halted")
           => /\ hook_pc' = "send_event"
              /\ resp' = Append(resp, RespEvent(hook_inv))

C6_StepReleasesOnce == []C6_Inv /\ [][C6_Act]_vars

C6_Witness ==
    /\ ret.op = "step" /\ ret.res = "ok"
    /\ call.clean
    /\ hook_pc = "sleep"

(* C7: halt(no_recv) stores Halted, and the state is Halted while it waits *)
(* and when it has returned, whatever it returns; it waits exactly when    *)
(* the previous state was Running and no_recv is false, and otherwise      *)
(* returns Ok(None) at once; it never posts a command and receives only    *)
(* in its wait.                                                            *)
C7_Inv == call.op = "halt" => exec_state = "Halted"

C7_Act ==
    /\ Calls("halt")
           => /\ exec_state' = "Halted"
              /\ UNCHANGED <<cmdq, resp>>
              /\ IF exec_state = "Running" /\ ~call'.no_recv
                 THEN ctl_pc' = "halt_recv"
                 ELSE /\ ctl_pc' = "idle"
                      /\ ret' = [op |-> "halt", res |-> "none", val |-> NoResp]
    /\ ctl_pc = "halt_recv"
           => /\ Len(cmdq') <= Len(cmdq)
              /\ exec_state' = "Halted"
              /\ ctl_pc' = "idle" => ret'.op = "halt"

C7_HaltSetsHalted == []C7_Inv /\ [][C7_Act]_vars

C7_Witness ==
    /\ ret.op = "halt" /\ ret.res = "mismatch"
    /\ exec_state = "Halted"

(* C9: every wait of the controller is bounded.  While a call waits and    *)
(* nothing is offered, the timeout can fire; the call then returns the     *)
(* timeout error of that call, leaving the Execution State, both channels  *)
(* and the VM thread as they were (the hook is not released); and the      *)
(* controller is idle again, able to make its next call.                   *)
C9_Inv ==
    /\ (ctl_pc \in WaitStates /\ resp = <<>>) => ENABLED RecvTimeout
    /\ ret.res = "timeout"
           => /\ ctl_pc = "idle"
              /\ ncalls < MaxCalls => (ENABLED Resume /\ ENABLED Halt(FALSE))

C9_Act ==
    (ctl_pc \in WaitStates /\ ret'.res = "timeout")
        => /\ ctl_pc' = "idle"
           /\ ret' = [op |-> call.op, res |-> "timeout", val |-> NoResp]
           /\ UNCHANGED <<exec_state, cmdq, resp>>
           /\ UNCHANGED hookVars

C9_WaitsAreBounded == []C9_Inv /\ [][C9_Act]_vars

C9_Witness ==
    /\ ret.res = "timeout"
    /\ hook_pc = "sleep"
    /\ hook_inv = call.inv

(* C10: step() and halt() return Ok only with an Event, get_backtrace()    *)
(* only with a Backtrace, get_locals() only with a Locals; a received      *)
(* response of another variant makes the call return the mismatch error,   *)
(* without the response, and the failure is counted.                       *)
C10_Inv ==
    ret.res = "ok"
        => /\ ret.op \in {"halt", "step"} => ret.val.k = "Event"
           /\ ret.op = "bt" => ret.val.k = "Backtrace"
           /\ ret.op = "locals" => ret.val.k = "Locals"

C10_Act ==
    (ctl_pc \in WaitStates /\ resp # <<>> /\ resp' = Tail(resp))
        => LET r == Head(resp)
               want == IF call.op = "bt" THEN "Backtrace"
                       ELSE IF call.op = "locals" THEN "Locals" ELSE "Event"
           IN /\ ctl_pc' = "idle"
              /\ ret'.op = call.op
              /\ r.k # want
                     => /\ ret'.res = "mismatch"
                        /\ ret'.val = NoResp
                        /\ nfail' = IF nfail < 2 THEN nfail + 1 ELSE nfail
              /\ r.k = want => ret'.res \in {"ok", "nolocals"}

C10_VariantMatches == []C10_Inv /\ [][C10_Act]_vars

C10_Witness ==
    /\ ret.op = "bt" /\ ret.res = "mismatch"
    /\ ctl_pc = "idle"

(* C11 (as claimed): get_locals(Some(level)) returns only variables of     *)
(* that level, and get_locals(None) returns the variables of levels 1, 2,  *)
(* ... in that order, starting at level 1.                                 *)
C11_LocalsOfRequestedLevel ==
    (ret.op = "locals" /\ ret.res = "ok")
        => LET v == ret.val.body IN
           IF call.lvl # NoLevel
           THEN \A i \in 1..Len(v) : v[i].lvl = call.lvl
           ELSE /\ v[1].lvl = 1
                /\ \A i \in 1..(Len(v) - 1) :
                       v[i + 1].lvl \in {v[i].lvl, v[i].lvl + 1}

(* C12: get_backtrace() returns the frames innermost first: frame i is     *)
(* level i; and their number is the number of consecutive levels, from 1,  *)
(* whose lookup succeeds on the stack of the invocation that is held in    *)
(* the hook when the response is received.                                 *)
C12_Inv ==
    (ret.op = "bt" /\ ret.res = "ok")
        => \A i \in 1..Len(ret.val.body) : ret.val.body[i] = i

C12_Act ==
    (ctl_pc = "bt_recv" /\ ret'.res = "ok")
        => LET n == Len(ret'.val.body)
           IN /\ \A l \in 1..n : l <= Len(stack)
              /\ ~(n + 1 <= Len(stack))
              /\ hook_pc = "send_bt"

C12_BacktraceInnermostFirst == []C12_Inv /\ [][C12_Act]_vars

C12_Witness ==
    /\ ret.op = "bt" /\ ret.res = "ok"
    /\ Len(ret.val.body) = 2
    /\ ret.val.body[1] = 1

(* C13: the hook sends Locals(None) exactly when its walk found no         *)
(* variable (the first level it looks at has no slot 0); get_locals turns  *)
(* a received Locals(None) into an error, counted as a failure; and        *)
(* get_locals never returns Ok with an empty list.                         *)
C13_Inv ==
    /\ \A i \in 1..Len(resp) :
           resp[i].k = "Locals" => (resp[i].some <=> resp[i].body # <<>>)
    /\ (ret.op = "locals" /\ ret.res = "ok") => ret.val.body # <<>>

C13_Act ==
    /\ (hook_pc = "poll" /\ hook_pc' = "send_loc")
           => LET lvl == IF Head(cmdq).lvl = NoLevel THEN 1 ELSE Head(cmdq).lvl
                  found == lvl <= Len(stack) /\ stack[lvl] > 0
              IN /\ Len(resp') = Len(resp) + 1
                 /\ resp'[Len(resp')].k = "Locals"
                 /\ resp'[Len(resp')].some <=> found
    /\ (ctl_pc = "locals_recv" /\ resp # <<>> /\ resp' = Tail(resp)
            /\ Head(resp).k = "Locals" /\ ~Head(resp).some)
           => /\ ret' = [op |-> "locals", res |-> "nolocals", val |-> NoResp]
              /\ nfail' = IF nfail < 2 THEN nfail + 1 ELSE nfail

C13_NoEmptyLocals == []C13_Inv /\ [][C13_Act]_vars

C13_Witness ==
    /\ ret.op = "locals" /\ ret.res = "nolocals"
    /\ call.lvl = 1
    /\ stack = <<0, 1>>

(* Evaluations that have been started and have not completed: the one     *)
(* eval_script is running, and the deferred ones still awaited.            *)
EvaluationsInProgress == watchers + (IF fe_pc = "eval" THEN 1 ELSE 0)

(* C14 (as claimed): at most one script evaluation is in progress at any   *)
(* time, a deferred debug-mode evaluation that is still awaited included.  *)
C14_OneEvaluation == EvaluationsInProgress <= 1

(* C15 (as claimed): every number ScriptBuffers::add returns is greater    *)
(* than every number it returned before, whatever buffer commands and      *)
(* loads came between, and no two stored buffers have the same number.     *)
C15_IdsNeverReused ==
    /\ (out.cmd \in {"new", "eval"} /\ out.val > 0) => out.val > out.arg
    /\ \A i, j \in 1..Len(buffers.store) :
           i # j => buffers.store[i].num # buffers.store[j].num

(* The values one segment of a path leads to from v: in a table the        *)
(* values under the string key equal to the segment or under the integer   *)
(* key the segment denotes, in an array the element the segment indexes.   *)
Children(v, seg) ==
    IF v.t = "Table"
    THEN {v.v[i].v : i \in {j \in 1..Len(v.v) :
              \/ v.v[j].k.t = "String" /\ v.v[j].k.v = seg
              \/ v.v[j].k.t = "Integer" /\ ParseSigned(seg) = Some(v.v[j].k.v)}}
    ELSE IF v.t = "Array"
    THEN {v.v[i] : i \in {j \in 1..Len(v.v) : ParseSigned(seg) = Some(j - 1)}}
    ELSE {}

(* The values at the end of the path segs from v. *)
RECURSIVE ValuesAt(_, _)
ValuesAt(v, segs) ==
    IF segs = <<>> THEN {v}
    ELSE UNION {ValuesAt(c, Tail(segs)) : c \in Children(v, Head(segs))}

FixturePath == <<"2", ".", "t", "h", "i", "s", ".", "i", "t", "e", "m", "s", "A", "r", "r", ".", "0">>

(* C16: for a path L.root.seg1...segN examine looks at the locals of level *)
(* L, whatever the level argument: it prints a value exactly when a local  *)
(* of level L named root has a value at the end of seg1..segN, and then    *)
(* prints such a value (expanded to the requested depth); it reports no    *)
(* value when level L has no local named root; and 2.this.itemsArr.0       *)
(* yields the integer 42.                                                  *)
C16_Inv ==
    out.cmd = "x"
        => LET segs == Split(out.arg.path, ".")
               L == ParseUnsigned(segs[1])
           IN /\ (L # None /\ Len(segs) >= 2)
                     => LET frame == IF L[1] \in 1..Len(Frames)
                                     THEN Frames[L[1]] ELSE <<>>
                            roots == {i \in 1..Len(frame) : frame[i].name = segs[2]}
                            ends == UNION {ValuesAt(frame[i].val,
                                                    SubSeq(segs, 3, Len(segs)))
                                           : i \in roots}
                        IN /\ roots = {} => out.res \in {"failed", "no_locals"}
                           /\ ends # {} <=> out.res = "value"
                           /\ out.res = "value"
                                  => \E e \in ends :
                                         out.val = Expand(e, out.arg.depth)
              /\ out.arg.path = FixturePath
                     => out.res = "value" /\ out.val = SqInteger(42)

C16_Act == fe_pc' = fe_pc /\ bps' = bps /\ buffers' = buffers

C16_ExamineResolvesPath == []C16_Inv /\ [][C16_Act]_vars

C16_Witness ==
    /\ out.cmd = "x"
    /\ out.arg.path = FixturePath
    /\ out.arg.level = Some(1)
    /\ out.val = SqInteger(42)

(* The token starts with a character that is not numeric. *)
StartsNonNumeric(t) == t # <<>> /\ t[1] \notin {"sup2"} /\ ~IsAsciiDigit(t[1])

(* A non-empty run of ASCII digits. *)
IsNumber(t) == t # <<>> /\ \A i \in 1..Len(t) : IsAsciiDigit(t[i])

BreakpointRecord(src, func, line) ==
    [src_file |-> src, fn_name |-> func, line |-> line]

C17_Inv ==
    out.cmd = "b"
        => LET toks == Split(out.arg, ":")
               has_file == Len(toks) >= 2 /\ toks[1] = FileKeyword
               src == IF has_file THEN Some(toks[2]) ELSE None
               rest == IF has_file THEN SubSeq(toks, 3, Len(toks)) ELSE toks
               digits(t) == \A i \in 1..Len(t) : IsAsciiDigit(t[i])
           IN IF Len(rest) = 2 /\ StartsNonNumeric(rest[1]) /\ digits(rest[2])
              THEN IF rest[2] = <<>> THEN out.res = "panic"
                   ELSE /\ out.res = "add"
                        /\ out.val = BreakpointRecord(src, Some(rest[1]),
                                                      Some(DigitsValue(rest[2])))
              ELSE IF Len(rest) = 1 /\ digits(rest[1])
              THEN IF rest[1] = <<>> THEN out.res = "panic"
                   ELSE /\ out.res = "add"
                        /\ out.val = BreakpointRecord(src, None,
                                                      Some(DigitsValue(rest[1])))
              ELSE IF Len(rest) = 1 /\ StartsNonNumeric(rest[1])
              THEN /\ out.res = "add"
                   /\ out.val = BreakpointRecord(src, Some(rest[1]), None)
              ELSE IF rest = <<>>
              THEN out.res = "add" /\ out.val = BreakpointRecord(src, None, None)
              ELSE out.res = "invalid"

C17_Act ==
    /\ out'.res = "add" => bps' = Append(bps, out'.val)
    /\ out'.res # "add" => bps' = bps
    /\ out'.res = "panic" <=> fe_pc' = "panicked"

C18_SomeFieldSet ==
    \A i \in 1..Len(bps) :
        \/ bps[i].src_file # None /\ bps[i].src_file[1] # <<>>
        \/ bps[i].fn_name # None /\ bps[i].fn_name[1] # <<>>
        \/ bps[i].line # None

(* C19 (as claimed): once the facade is dropped, a debug event raised      *)
(* after the drop does not make the VM thread send on the response         *)
(* channel, poll the command channel or stay in the loop of the hook: the  *)
(* invocation, if the hook is called at all, does nothing.                 *)
C19_DropDetachesHook ==
    (ctl_pc = "dropped" /\ hook_inv > call.inv) => hook_pc \in {"vm", "entry"}

(* C20: a hook invocation blocked in a send stays where it is, with the    *)
(* same response offered, in every step except a receive of the            *)
(* controller (the receive of a waiting call, or a raw receive); while it  *)
(* is blocked the VM thread has no step of its own to take.                *)
C20_Inv ==
    (hook_pc \in SendStates /\ resp # <<>>) => ~ENABLED HookStep

C20_Act ==
    (hook_pc \in SendStates /\ resp # <<>>)
        => /\ hook_pc' = hook_pc
           /\ hook_inv' = hook_inv
           /\ \/ resp' = resp
              \/ /\ resp' = <<>>
                 /\ \/ ctl_pc \in WaitStates /\ ctl_pc' = "idle"
                          /\ ret'.res # "timeout"
                    \/ Calls("raw")

C20_BlockedUntilReceive == []C20_Inv /\ [][C20_Act]_vars

C20_Witness ==
    /\ hook_pc = "send_loc" /\ resp # <<>>
    /\ ret.op = "resume"
    /\ exec_state = "Running"
    /\ ctl_pc = "idle"


(* The latest call is a resume() that directly followed a timed-out wait   *)
(* during which the VM thread was inside the hook invocation that is       *)
(* still the latest one.                                                   *)
AfterTimeoutResume ==
    /\ ret.op = "resume"
    /\ call.held
    /\ hook_inv = call.inv

(* C21: after a controller-side wait has timed out while the VM thread is  *)
(* inside the hook, a resume() that follows releases the VM thread.  Until *)
(* a further call is made, the state is Running, nothing is offered and no *)
(* Backtrace or Locals is queued, so the hook invocation is in no send: it *)
(* is on its way through the loop, and it is gone once it has loaded       *)
(* Running at line 141 or taken a queued Step; and when the VM thread is   *)
(* scheduled, it does leave the hook unless a further call intervenes.     *)
C21_Inv ==
    AfterTimeoutResume
        => /\ exec_state = "Running"
           /\ resp = <<>>
           /\ OnlySteps(cmdq)
           /\ hook_pc \in LoopStates \cup {"entry", "vm"}
           /\ hook_pc = "vm" => released

C21_Released == ~AfterTimeoutResume \/ hook_pc = "vm"

C22_Inv ==
    \A i, j \in 1..Len(cmdq) :
        i < j => (cmdq[i].call < cmdq[j].call /\ cmdq[j].call <= ncalls)

C22_Act ==
    /\ cmdq' # cmdq
           => \/ /\ ncalls' = ncalls + 1
                 /\ Len(cmdq') = Len(cmdq) + 1
                 /\ cmdq' = Append(cmdq, cmdq'[Len(cmdq')])
                 /\ cmdq'[Len(cmdq')].call = ncalls'
                 /\ hook_pc' = hook_pc
              \/ /\ hook_pc = "poll"
                 /\ cmdq # <<>>
                 /\ cmdq' = Tail(cmdq)
                 /\ hook_pc' # "poll"
                 /\ ncalls' = ncalls
    /\ (hook_pc = "poll" /\ hook_pc' # "poll" /\ cmdq # <<>>)
           => /\ cmdq' = Tail(cmdq)
              /\ Head(cmdq).t = "Step" => (hook_pc' = "vm" /\ released')
    /\ (hook_pc # "poll" /\ hook_pc' = "poll")
           => hook_pc \in {"entry", "send_event", "sleep"}

C22_CommandsInOrder == []C22_Inv /\ [][C22_Act]_vars

(* step() was called before the first debug event; the first invocation    *)
(* of the hook found the Step at its first poll and returned.              *)
C22_Witness ==
    /\ ret.op = "step"
    /\ call.pc = "vm"
    /\ call.inv = 0
    /\ hook_inv = 1
    /\ hook_pc = "vm"
    /\ released
    /\ cmdq = <<>>

(* C23: handling a Backtrace or Locals command does not release the VM     *)
(* thread.  A poll that takes one of them leads into the send of the       *)
(* response, the send leads to the check of line 141, and the check leads  *)
(* to the sleep of the loop while the state is Halted; the invocation ends *)
(* only at a poll that took a Step or at a check that loaded Running.      *)
C23_Act ==
    /\ (hook_pc = "poll" /\ hook_pc' # "poll" /\ cmdq # <<>>
            /\ Head(cmdq).t \in {"Backtrace", "Locals"})
           => /\ hook_pc' = (IF Head(cmdq).t = "Backtrace"
                             THEN "send_bt" ELSE "send_loc")
              /\ resp' # <<>>
              /\ released' = released
    /\ (hook_pc \in {"send_bt", "send_loc"} /\ hook_pc' # hook_pc)
           => hook_pc' = "check" /\ released' = released
    /\ (hook_pc = "check" /\ hook_pc' # "check" /\ exec_state = "Halted")
           => hook_pc' = "sleep" /\ ~released'
    /\ (hook_pc # "vm" /\ hook_pc' = "vm")
           => \/ hook_pc = "poll" /\ cmdq # <<>> /\ Head(cmdq).t = "Step"
              \/ hook_pc = "check" /\ exec_state = "Running"
    /\ hook_inv' # hook_inv => hook_pc = "vm"

C23_InspectionKeepsVmHeld == [][C23_Act]_vars

(* get_backtrace() has returned the stack of the invocation that is in     *)
(* progress, and the hook is asleep in its loop again.                     *)
C23_Witness ==
    /\ ret.op = "bt"
    /\ ret.res = "ok"
    /\ exec_state = "Halted"
    /\ hook_inv = ret.val.inv
    /\ hook_pc = "sleep"
    /\ ~released

(* C24: the state is Halted from attach until the first call of the        *)
(* controller, and until then the first invocation of the hook does not    *)
(* get past the send of its Event; an Event is in the channel only while   *)
(* the invocation that loaded Halted on entry is in that send, it leaves   *)
(* the send only when the controller has received the Event, and an        *)
(* invocation that loads Running on entry goes to its loop and offers      *)
(* nothing.                                                                *)
C24_Inv ==
    /\ ncalls = 0
           => /\ exec_state = "Halted"
              /\ hook_inv <= 1
              /\ hook_pc \in {"vm", "entry", "send_event"}
              /\ hook_pc = "vm" => hook_inv = 0
              /\ hook_pc = "send_event" => resp = <<RespEvent(1)>>
    /\ (resp # <<>> /\ Head(resp).k = "Event")
           => /\ hook_pc = "send_event"
              /\ Head(resp) = RespEvent(hook_inv)

C24_Act ==
    /\ (hook_pc = "entry" /\ hook_pc' # "entry")
           => IF exec_state = "Halted"
              THEN hook_pc' = "send_event" /\ resp' = <<RespEvent(hook_inv)>>
              ELSE hook_pc' = "poll" /\ resp' = resp
    /\ (hook_pc = "send_event" /\ hook_pc' # "send_event")
           => hook_pc' = "poll" /\ resp = <<>>
    /\ (hook_pc = "send_event" /\ resp # <<>> /\ resp' = <<>>)
           => ncalls' = ncalls + 1 \/ ctl_pc \in WaitStates

C24_HaltedAtAttach == []C24_Inv /\ [][C24_Act]_vars

(* The first call of the controller took the Event of the first debug      *)
(* event from the raw receiver, and the hook went on to its loop.          *)
C24_Witness ==
    /\ ncalls = 1
    /\ ret.op = "raw"
    /\ ret.val = RespEvent(1)
    /\ hook_inv = 1
    /\ hook_pc = "poll"

(* C27: only resume() and halt() write the Execution State, resume() to    *)
(* Running and halt() to Halted.  Every step of the hook, the calls        *)
(* step(), get_locals() and get_backtrace(), the raw receive, and the      *)
(* return of a wait with a response, a wrong-variant error or a timeout    *)
(* leave it as it is.  (exec_state() is a load: it is no step at all.)     *)
C27_Act ==
    /\ exec_state' # exec_state
           => \/ Calls("resume") /\ exec_state' = "Running"
              \/ Calls("halt") /\ exec_state' = "Halted"
    /\ Calls("resume") => exec_state' = "Running"
    /\ Calls("halt") => exec_state' = "Halted"
    /\ (ctl_pc \in WaitStates /\ ctl_pc' = "idle") => exec_state' = exec_state
    /\ <<hook_pc, hook_inv>>' # <<hook_pc, hook_inv>> => exec_state' = exec_state

C27_OnlyResumeAndHaltWrite == [][C27_Act]_vars

(* get_locals() has failed on a response of the wrong variant after a      *)
(* resume(), and the state is still Running.                               *)
C27_Witness ==
    /\ ret.op = "locals"
    /\ ret.res = "mismatch"
    /\ exec_state = "Running"

(* A get_backtrace() or get_locals() that found the hook held in its loop  *)
(* with nothing queued and nothing offered is the latest call.             *)
CleanInspection ==
    /\ call.op \in {"bt", "locals"}
    /\ call.clean

(* C28: a get_backtrace() or get_locals() that finds the hook in its       *)
(* polling loop with state Halted, an empty queue and nothing offered, and *)
(* that does not time out, receives the Backtrace (Locals) response to its *)
(* own command, never a response of another variant; and when it has       *)
(* returned, the same hook invocation is still held in the loop, the state *)
(* is Halted and the queue is empty.                                       *)
C28_CleanInspectionAnswered ==
    /\ (CleanInspection /\ ctl_pc \in WaitStates /\ resp # <<>>)
           => /\ Head(resp).k = ExpectedKind(call.op)
              /\ Head(resp).call = call.id
              /\ Head(resp).inv = call.inv
    /\ (CleanInspection /\ ret.op = call.op /\ ret.res # "timeout")
           => /\ ctl_pc = "idle"
              /\ ret.res \in {"ok", "nolocals"}
              /\ ret.res = "ok" => /\ ret.val.k = ExpectedKind(call.op)
                                   /\ ret.val.call = call.id
              /\ ret.res = "nolocals" => call.op = "locals"
              /\ exec_state = "Halted"
              /\ hook_inv = call.inv
              /\ hook_pc \in LoopStates \cup {"send_bt", "send_loc"}
              /\ cmdq = <<>>
              /\ resp = <<>>

(* get_locals() of a level that has no locals returned its error after     *)
(* receiving the (empty) Locals response to its own command, and the hook  *)
(* is back at its poll.                                                    *)
C28_Witness ==
    /\ CleanInspection
    /\ ret.op = "locals"
    /\ ret.res = "nolocals"
    /\ hook_pc = "poll"
    /\ hook_inv = call.inv

(* What one segment selects in a value, as C25 words it.                   *)
C25_Segment(v, seg) ==
    LET n == ParseSigned(seg)
        matches(e) == \/ e.k = SqString(seg)
                      \/ n # None /\ e.k = SqInteger(n[1])
    IN IF v.t \in {"Table", "Class", "Instance"}
       THEN IF \E i \in 1..Len(v.v) : matches(v.v[i])
            THEN Some(v.v[CHOOSE i \in 1..Len(v.v) :
                              /\ matches(v.v[i])
                              /\ \A j \in 1..(i - 1) : ~matches(v.v[j])].v)
            ELSE None
       ELSE IF v.t = "Array"
       THEN IF n # None /\ n[1] \in 0..(Len(v.v) - 1)
            THEN Some(v.v[n[1] + 1]) ELSE None
       ELSE None

RECURSIVE C25_Resolve(_, _)
C25_Resolve(path, root) ==
    IF path = <<>> THEN None
    ELSE LET c == C25_Segment(root, Head(path))
         IN IF c = None THEN None
            ELSE IF Len(path) = 1 THEN c
            ELSE C25_Resolve(Tail(path), c[1])

(* C25: match_local_path resolves one segment per recursion step: in a     *)
(* table, class or instance the first entry whose key is the string equal  *)
(* to the segment or, if the segment parses as an integer, that integer;   *)
(* in an array the element at the index the segment denotes, failing for a *)
(* negative, non-numeric or out-of-range index; nothing in any other       *)
(* value; a value only if every segment resolves, None for the empty path. *)
C25_MatchLocalPath ==
    out.cmd = "m"
        => /\ out.val = C25_Resolve(out.arg.path, out.arg.root)
           /\ out.arg.path = <<>> => out.val = None
           /\ out.arg.root.t \in {"Integer", "String"} => out.val = None
           /\ (out.arg.root.t = "Array" /\ out.arg.path # <<>>
                   /\ Head(out.arg.path) \in {<<"x">>, <<>>, <<"-", "1">>, <<"3">>, <<"-">>})
                  => out.val = None
           /\ (out.val # None /\ Len(out.arg.path) = 2)
                  => LET c == C25_Segment(out.arg.root, out.arg.path[1])
                     IN c # None /\ out.val = C25_Segment(c[1], out.arg.path[2])

(* The segment "1" in a table that has the integer key 1 before the string *)
(* key "1": the value under the integer key is selected.                   *)
C25_Witness ==
    /\ out.cmd = "m"
    /\ out.arg.path = << <<"1">> >>
    /\ out.arg.root.t = "Table"
    /\ out.val = Some(SqString(<<"o">>))

(* The positions of the entries of a store that carry a number. *)
C26_Positions(store, number) == {i \in 1..Len(store) : store[i].num = number}

(* C26: replace with a number that is not in the store changes neither the *)
(* store nor the counter; replace with a number that is in the store       *)
(* changes the text of that entry and nothing else; delete removes the     *)
(* entry with the number, keeps the other entries as they are and in their *)
(* order, and keeps the counter.                                           *)
C26_ReplaceAndDeleteFrame ==
    LET b == out.arg.before
        n == out.arg.num
        at == C26_Positions(b.store, n)
    IN /\ out.cmd \in {"replace", "delete"}
              => /\ buffers.counter = b.counter
                 /\ Cardinality(at) <= 1
                 /\ at = {} => buffers = b
       /\ (out.cmd = "replace" /\ at # {})
              => /\ Len(buffers.store) = Len(b.store)
                 /\ \A i \in 1..Len(b.store) :
                        /\ buffers.store[i].num = b.store[i].num
                        /\ i \notin at => buffers.store[i] = b.store[i]
                        /\ i \in at => buffers.store[i].buf = out.arg.buf
       /\ (out.cmd = "delete" /\ at # {})
              => LET p == CHOOSE i \in at : TRUE
                 IN buffers.store = SubSeq(b.store, 1, p - 1)
                                        \o SubSeq(b.store, p + 1, Len(b.store))

(* The second of three buffers has been deleted. *)
C26_Witness ==
    /\ out.cmd = "delete"
    /\ out.arg.num = 2
    /\ Len(out.arg.before.store) = 3
    /\ Len(buffers.store) = 2
    /\ buffers.store[2].num = 3

(* C29: during_eval is false whenever eval_script is not running, so it is *)
(* false whenever eval_script has returned, whatever the path: rejected,   *)
(* editor failure, invalid capture list, empty buffer, evaluation done or  *)
(* failed, debug-mode evaluation started or not started.  The flag is set  *)
(* only between lines 493 and 510.                                         *)
C29_GuardClearedOnReturn ==
    /\ fe_pc # "eval" => ~during_eval
    /\ fe_pc = "eval" => during_eval
    /\ (out.cmd = "eval" /\ fe_pc = "idle")
           => /\ ~during_eval
              /\ out.res \in {"rejected", "editor_failed", "invalid_level",
                              "invalid_spec", "empty", "result", "failed",
                              "deferred"}

(* A debug-mode evaluation has been started and its result is still        *)
(* awaited: eval_script has returned and the flag is clear.                *)
C29_Witness ==
    /\ out.cmd = "eval"
    /\ out.res = "deferred"
    /\ fe_pc = "idle"
    /\ watchers = 1
    /\ ~during_eval

====
